---- MODULE Spec2Model ----
(***************************************************************************)
(* Model of the weather data system: the normalization pipeline            *)
(* WeatherDataProcessor.clean_and_transform_data, the table written by     *)
(* WeatherDatabase.store_data and the orchestration                        *)
(* WeatherSystem.process_and_store_data_file.                              *)
(*                                                                         *)
(* A raw dataset is a pandas DataFrame: an ordered list of column names    *)
(* and a list of rows.  Column names are sequences of one-character        *)
(* strings, so that lower() and replace() act on characters.  Numbers are  *)
(* held as integer counts of one half (10.0 is 20), so that the median of  *)
(* an even count of whole numbers is exact.  A timestamp is an integer     *)
(* instant.  The calendar components derived from datetime_utc (year,      *)
(* month, day, hour, date, month_name) are functions of that column alone  *)
(* and are not carried in the frames below.                                *)
(***************************************************************************)
EXTENDS Integers, Sequences, FiniteSets, TLC

VARIABLES df, result, processed_data, weather_data

vars == <<df, result, processed_data, weather_data>>

\* Most rows of a raw dataset of timestamps and temperatures.
MaxRows == 3

\* Most rows of a raw dataset of the other enumerated families.
MaxShort == 2

\* Most rows of a file the system processes.
MaxFileRows == 2

\* Most rows the weather_data table holds.
MaxStored == 4

\* Most temperatures of the month whose median is asked for.
MaxTemps == 4

----------------------------------------------------------------------------
(* Cells *)

\* float NaN, as read from a blank cell
NaN == [k |-> "nan"]

\* Python None
None == [k |-> "none"]

\* a number, n halves
Num(n) == [k |-> "num", n |-> n]

\* a whole number x
Whole(x) == Num(2 * x)

\* a text cell
Str(s) == [k |-> "str", s |-> s]

\* a date/time cell denoting instant t
Timestamp(t) == [k |-> "ts", t |-> t]

\* NaT: a timestamp that did not parse
NaT == [k |-> "nat"]

\* pd.isna / Series.isna
isna(c) == c.k \in {"nan", "none", "nat"}

notna(c) == ~isna(c)

----------------------------------------------------------------------------
(* Strings *)

lower_char(c) ==
    CASE c = "A" -> "a" [] c = "B" -> "b" [] c = "C" -> "c" [] c = "D" -> "d"
      [] c = "E" -> "e" [] c = "F" -> "f" [] c = "G" -> "g" [] c = "H" -> "h"
      [] c = "I" -> "i" [] c = "J" -> "j" [] c = "K" -> "k" [] c = "L" -> "l"
      [] c = "M" -> "m" [] c = "N" -> "n" [] c = "O" -> "o" [] c = "P" -> "p"
      [] c = "Q" -> "q" [] c = "R" -> "r" [] c = "S" -> "s" [] c = "T" -> "t"
      [] c = "U" -> "u" [] c = "V" -> "v" [] c = "W" -> "w" [] c = "X" -> "x"
      [] c = "Y" -> "y" [] c = "Z" -> "z" [] OTHER -> c

\* str.lower()
lower(s) == [i \in 1..Len(s) |-> lower_char(s[i])]

\* str.replace(old, '') for a one-character old
replace(s, old) == SelectSeq(s, LAMBDA c : c # old)

\* mutant: blanks are kept
search_key_keeping_blanks(s) == replace(lower(s), "_")

\* col.lower().replace('_', '').replace(' ', '')
search_key(s) == replace(replace(lower(s), "_"), " ")

\* c.lower().replace('_', '') of the datetime variants
variant_key(s) == replace(lower(s), "_")

\* str.strip(): surrounding blanks removed
RECURSIVE lstrip(_)
lstrip(s) == IF s # <<>> /\ Head(s) = " " THEN lstrip(Tail(s)) ELSE s

RECURSIVE rstrip(_)
rstrip(s) ==
    IF s # <<>> /\ s[Len(s)] = " " THEN rstrip(SubSeq(s, 1, Len(s) - 1)) ELSE s

strip(s) == rstrip(lstrip(s))

Digits == {"0", "1", "2", "3", "4", "5", "6", "7", "8", "9"}

digit_value(c) ==
    CASE c = "0" -> 0 [] c = "1" -> 1 [] c = "2" -> 2 [] c = "3" -> 3
      [] c = "4" -> 4 [] c = "5" -> 5 [] c = "6" -> 6 [] c = "7" -> 7
      [] c = "8" -> 8 [] c = "9" -> 9

\* text made of decimal digits only
is_digits(s) == s # <<>> /\ \A i \in 1..Len(s) : s[i] \in Digits

\* the whole number a digit string denotes
RECURSIVE int_of(_)
int_of(s) ==
    IF s = <<>> THEN 0
    ELSE 10 * int_of(SubSeq(s, 1, Len(s) - 1)) + digit_value(s[Len(s)])

----------------------------------------------------------------------------
(* Column tables of clean_and_transform_data *)

possible_datetime_cols ==
    << <<"d","a","t","e","t","i","m","e","u","t","c">>,
       <<"d","a","t","e","t","i","m","e","_","u","t","c">>,
       <<"D","a","t","e","T","i","m","e","U","T","C">> ,
       <<"D","a","t","e","T","i","m","e">>,
       <<"d","a","t","e","t","i","m","e">> >>

numeric_columns ==
    << [raw |-> <<"t","e","m","p","m">>, new |-> "temperature"],
       [raw |-> <<"h","u","m">>, new |-> "humidity"],
       [raw |-> <<"p","r","e","s","s","u","r","e","m">>, new |-> "pressure"],
       [raw |-> <<"h","e","a","t","i","n","d","e","x","m">>, new |-> "heat_index"],
       [raw |-> <<"d","e","w","p","t","m">>, new |-> "dew_point"],
       [raw |-> <<"p","r","e","c","i","p","m">>, new |-> "precipitation"],
       [raw |-> <<"v","i","s","m">>, new |-> "visibility"],
       [raw |-> <<"w","d","i","r","d">>, new |-> "wind_direction"],
       [raw |-> <<"w","s","p","d","m">>, new |-> "wind_speed"],
       [raw |-> <<"w","g","u","s","t","m">>, new |-> "wind_gust"],
       [raw |-> <<"w","i","n","d","c","h","i","l","l","m">>, new |-> "wind_chill"] >>

categorical_columns ==
    << [raw |-> <<"c","o","n","d","s">>, new |-> "weather_condition"],
       [raw |-> <<"w","d","i","r","e">>, new |-> "wind_direction_text"] >>

boolean_columns ==
    << [raw |-> <<"f","o","g">>, new |-> "fog_event"],
       [raw |-> <<"h","a","i","l">>, new |-> "hail_event"],
       [raw |-> <<"r","a","i","n">>, new |-> "rain_event"],
       [raw |-> <<"s","n","o","w">>, new |-> "snow_event"],
       [raw |-> <<"t","h","u","n","d","e","r">>, new |-> "thunder_event"],
       [raw |-> <<"t","o","r","n","a","d","o">>, new |-> "tornado_event"] >>

critical_columns == <<"temperature", "humidity", "pressure">>

other_numeric ==
    <<"heat_index", "dew_point", "precipitation", "visibility",
      "wind_direction", "wind_speed", "wind_gust", "wind_chill">>

\* names of the columns lines 62-77 add to the working copy
temporal_columns ==
    << <<"d","a","t","e","t","i","m","e","_","u","t","c">>,
       <<"y","e","a","r">>, <<"m","o","n","t","h">>, <<"d","a","y">>,
       <<"h","o","u","r">>, <<"d","a","t","e">>,
       <<"m","o","n","t","h","_","n","a","m","e">> >>

Range(s) == {s[i] : i \in 1..Len(s)}

Max(S) == CHOOSE x \in S : \A y \in S : y <= x

Min(S) == CHOOSE x \in S : \A y \in S : x <= y

----------------------------------------------------------------------------
(* Frames *)

\* df[name]: the cells of the raw column called name
raw_column(d, name) ==
    LET j == CHOOSE c \in 1..Len(d.columns) : d.columns[c] = name
    IN  [i \in 1..Len(d.rows) |-> d.rows[i][j]]

NoError == "no error"

SchemaError == "Cannot find datetime column in the dataset"

DataQualityError == "No valid dates found after conversion"

IntCastError == "invalid literal for int() with base 10"

\* mutant: the stages work on the caller's frame itself
alias(d) ==
    [raw |-> d, shared |-> TRUE, error |-> NoError, ran |-> <<>>,
     datetime_col |-> <<>>, col_mapping |-> [c \in {} |-> <<>>],
     index |-> [i \in 1..Len(d.rows) |-> i],
     data |-> [c \in {} |-> <<>>]]

\* the working copy made by df.copy(): a frame of its own (not shared with
\* the caller), no canonical column yet
copy(d) ==
    [raw |-> d, shared |-> FALSE, error |-> NoError, ran |-> <<>>,
     datetime_col |-> <<>>, col_mapping |-> [c \in {} |-> <<>>],
     index |-> [i \in 1..Len(d.rows) |-> i],
     data |-> [c \in {} |-> <<>>]]

\* the exception leaves the try block: no later statement runs
raise(st, stage, e) == [st EXCEPT !.error = e, !.ran = Append(@, stage)]

\* processed_df[name] = column
assign(st, name, column) == [st EXCEPT !.data = (name :> column) @@ @]

----------------------------------------------------------------------------
(* Lines 47-59: the datetime column *)

\* the list comprehension of line 52
datetime_keys == {variant_key(v) : v \in Range(possible_datetime_cols)}

is_datetime_name(col) == search_key(col) \in datetime_keys

\* the first column, in declaration order, that the loop of line 51 accepts
find_datetime_col(columns) ==
    LET hits == {j \in 1..Len(columns) : is_datetime_name(columns[j])}
    IN  IF hits = {} THEN <<>> ELSE columns[Min(hits)]

\* mutant: with no match, the first column is taken for the timestamps
resolve_datetime_default(st) ==
    LET col == find_datetime_col(st.raw.columns)
    IN  IF col = <<>> /\ st.raw.columns = <<>>
        THEN raise(st, "resolve_datetime", SchemaError)
        ELSE [st EXCEPT !.datetime_col = IF col = <<>> THEN st.raw.columns[1] ELSE col,
                        !.ran = Append(@, "resolve_datetime")]

resolve_datetime(st) ==
    LET col == find_datetime_col(st.raw.columns)
    IN  IF col = <<>>
        THEN raise(st, "resolve_datetime", SchemaError)
        ELSE [st EXCEPT !.datetime_col = col,
                        !.ran = Append(@, "resolve_datetime")]

----------------------------------------------------------------------------
(* Lines 61-77: timestamps *)

\* pd.to_datetime(errors='coerce') on one cell
to_datetime(c) == IF c.k = "ts" THEN c ELSE NaT

\* mutant: the count of valid dates is not checked
parse_datetime_unchecked(st) ==
    IF st.error # NoError THEN st
    ELSE LET raw == raw_column(st.raw, st.datetime_col)
             parsed == [i \in 1..Len(raw) |-> to_datetime(raw[i])]
         IN  [assign(st, "datetime_utc", parsed)
                 EXCEPT !.ran = Append(@, "parse_datetime")]

parse_datetime(st) ==
    IF st.error # NoError THEN st
    ELSE LET raw == raw_column(st.raw, st.datetime_col)
             parsed == [i \in 1..Len(raw) |-> to_datetime(raw[i])]
             valid_dates == Cardinality({i \in 1..Len(parsed) : notna(parsed[i])})
             done == assign(st, "datetime_utc", parsed)
         IN  IF valid_dates = 0
             THEN raise(done, "parse_datetime", DataQualityError)
             ELSE [done EXCEPT !.ran = Append(@, "parse_datetime")]

\* frame['datetime_utc'] = parsed (line 62) on a raw frame: the column of
\* that name is overwritten, or added after the others
with_datetime_utc(d, parsed) ==
    LET name == temporal_columns[1]
        at == {j \in 1..Len(d.columns) : d.columns[j] = name}
    IN  IF at = {}
        THEN [columns |-> Append(d.columns, name),
              rows |-> [i \in 1..Len(d.rows) |-> Append(d.rows[i], parsed[i])]]
        ELSE [d EXCEPT !.rows = [i \in 1..Len(d.rows) |->
                                    [d.rows[i] EXCEPT ![Min(at)] = parsed[i]]]]

\* the caller's DataFrame once the call is over: every assignment of the
\* stages goes to the working frame, which is the caller's only if shared
caller_frame(d) ==
    LET st == parse_datetime(resolve_datetime(copy(d)))
    IN  IF copy(d).shared /\ "datetime_utc" \in DOMAIN st.data
        THEN with_datetime_utc(d, st.data["datetime_utc"])
        ELSE d

\* the columns of the working copy when col_mapping is built (line 95)
working_columns(d) ==
    d.columns \o SelectSeq(temporal_columns, LAMBDA c : c \notin Range(d.columns))

\* mutant: the first column of each key is kept
col_mapping_first(columns) ==
    LET keys == [j \in 1..Len(columns) |-> search_key(columns[j])]
    IN  [key \in Range(keys) |->
            columns[Min({j \in 1..Len(columns) : keys[j] = key})]]

\* the dict of lines 95-96, from search key to column name: a dict
\* comprehension keeps the last column of each key
col_mapping(columns) ==
    LET keys == [j \in 1..Len(columns) |-> search_key(columns[j])]
    IN  [key \in Range(keys) |->
            columns[Max({j \in 1..Len(columns) : keys[j] = key})]]

----------------------------------------------------------------------------
(* Lines 79-106: numeric columns *)

\* pd.to_numeric(errors='coerce') on one cell: a number stays, digit text
\* converts, everything else becomes NaN
to_numeric(c) ==
    CASE c.k = "num" -> c
      [] c.k = "str" /\ is_digits(c.s) -> Whole(int_of(c.s))
      [] OTHER -> NaN

RECURSIVE map_numeric(_, _)
map_numeric(st, i) ==
    IF i > Len(numeric_columns) THEN st
    ELSE LET key == search_key(numeric_columns[i].raw)
             actual == raw_column(st.raw, st.col_mapping[key])
         IN  map_numeric(
                 IF key \in DOMAIN st.col_mapping
                 THEN assign(st, numeric_columns[i].new,
                             [r \in 1..Len(actual) |-> to_numeric(actual[r])])
                 ELSE st,
                 i + 1)

coerce_numeric(st) ==
    IF st.error # NoError THEN st
    ELSE [map_numeric([st EXCEPT !.col_mapping =
                                     col_mapping(working_columns(st.raw))], 1)
             EXCEPT !.ran = Append(@, "coerce_numeric")]

----------------------------------------------------------------------------
(* Lines 108-122: categorical columns *)

\* the decimal digits of a natural number
RECURSIVE nat_repr(_)
nat_repr(n) ==
    LET d == <<"0", "1", "2", "3", "4", "5", "6", "7", "8", "9">>[(n % 10) + 1]
    IN  IF n < 10 THEN <<d>> ELSE Append(nat_repr(n \div 10), d)

\* str(x) of one cell; a number is a float of n halves
astype_str(c) ==
    CASE c.k = "str" -> c.s
      [] c.k = "nan" -> <<"n", "a", "n">>
      [] c.k = "none" -> <<"N", "o", "n", "e">>
      [] c.k = "nat" -> <<"N", "a", "T">>
      [] c.k = "num" ->
            nat_repr(c.n \div 2) \o <<".", IF c.n % 2 = 0 THEN "0" ELSE "5">>

\* .replace(['nan', '', 'None'], None) on one cell of text
replace_tokens(s) ==
    IF s \in {<<"n", "a", "n">>, <<>>, <<"N", "o", "n", "e">>} THEN None ELSE Str(s)

\* mutant: the tokens are replaced before the text is trimmed
canonical_text_trimming_last(c) ==
    IF astype_str(c) \in {<<"n", "a", "n">>, <<>>, <<"N", "o", "n", "e">>} THEN None
    ELSE Str(strip(astype_str(c)))

\* .astype(str).str.strip() and the replace of line 119
canonical_text(c) == replace_tokens(strip(astype_str(c)))

RECURSIVE map_categorical(_, _)
map_categorical(st, i) ==
    IF i > Len(categorical_columns) THEN st
    ELSE LET key == search_key(categorical_columns[i].raw)
             actual == raw_column(st.raw, st.col_mapping[key])
         IN  map_categorical(
                 IF key \in DOMAIN st.col_mapping
                 THEN assign(st, categorical_columns[i].new,
                             [r \in 1..Len(actual) |-> canonical_text(actual[r])])
                 ELSE st,
                 i + 1)

coerce_categorical(st) ==
    IF st.error # NoError THEN st
    ELSE [map_categorical(st, 1) EXCEPT !.ran = Append(@, "coerce_categorical")]

----------------------------------------------------------------------------
(* Lines 124-135: event columns *)

\* whether int(x) accepts the cell (after fillna(0))
int_castable(c) == c.k = "str" => is_digits(strip(c.s))

\* .fillna(0).astype(int) on one cell: a float is truncated
fillna0_astype_int(c) ==
    CASE isna(c) -> Whole(0)
      [] c.k = "num" -> Whole(c.n \div 2)
      [] c.k = "str" -> Whole(int_of(strip(c.s)))

RECURSIVE map_events(_, _)
map_events(st, i) ==
    IF i > Len(boolean_columns) \/ st.error # NoError THEN st
    ELSE LET key == lower(boolean_columns[i].raw)
             actual == raw_column(st.raw, st.col_mapping[key])
             n == Len(st.raw.rows)
         IN  map_events(
                 IF key \in DOMAIN st.col_mapping
                 THEN IF \A r \in 1..n : int_castable(actual[r])
                      THEN assign(st, boolean_columns[i].new,
                                  [r \in 1..n |-> fillna0_astype_int(actual[r])])
                      ELSE [st EXCEPT !.error = IntCastError]
                 ELSE assign(st, boolean_columns[i].new, [r \in 1..n |-> Whole(0)]),
                 i + 1)

event_flags(st) ==
    IF st.error # NoError THEN st
    ELSE [map_events(st, 1) EXCEPT !.ran = Append(@, "event_flags")]

----------------------------------------------------------------------------
(* Lines 137-142: rows without a timestamp *)

\* the rows at the given positions, in that order, index labels kept
take(st, positions) ==
    [st EXCEPT
        !.index = [j \in 1..Len(positions) |-> st.index[positions[j]]],
        !.data = [c \in DOMAIN st.data |->
                     [j \in 1..Len(positions) |-> st.data[c][positions[j]]]]]

\* processed_df.dropna(subset=['datetime_utc'])
dropna(st) ==
    IF st.error # NoError THEN st
    ELSE LET n == Len(st.index)
             kept == SelectSeq([i \in 1..n |-> i],
                               LAMBDA i : notna(st.data["datetime_utc"][i]))
         IN  [take(st, kept) EXCEPT !.ran = Append(@, "dropna")]

----------------------------------------------------------------------------
(* Lines 144-161: missing values *)

\* Series.ffill() at row i: the last non-null cell at or before i, if any
RECURSIVE ffill_at(_, _)
ffill_at(col, i) ==
    IF notna(col[i]) \/ i = 1 THEN col[i] ELSE ffill_at(col, i - 1)

ffill(col) == [i \in 1..Len(col) |-> ffill_at(col, i)]

\* Series.fillna(value)
fillna(col, value) == [i \in 1..Len(col) |-> IF isna(col[i]) THEN value ELSE col[i]]

\* Series.median(): nulls skipped, NaN when nothing is left
median(col) ==
    LET present == SelectSeq(col, notna)
        sorted == SortSeq([i \in 1..Len(present) |-> present[i].n],
                          LAMBDA a, b : a < b)
        n == Len(sorted)
    IN  IF n = 0 THEN NaN
        ELSE IF n % 2 = 1 THEN Num(sorted[(n \div 2) + 1])
        ELSE Num((sorted[n \div 2] + sorted[(n \div 2) + 1]) \div 2)

missing_count(col) == Cardinality({i \in 1..Len(col) : isna(col[i])})

\* mutant: the median alone, no forward fill
fill_critical_median_only(col) == fillna(col, median(col))

\* mutant: the forward fill alone, leading nulls left
fill_critical_ffill_only(col) == ffill(col)

\* mutant: a leading null takes the first observed value
fill_critical_backfill(col) ==
    LET seen == {i \in 1..Len(col) : notna(col[i])}
    IN  fillna(ffill(col), IF seen = {} THEN NaN ELSE col[Min(seen)])

\* line 150
fill_critical(col) == fillna(ffill(col), median(col))

\* mutant: the last observation is carried forward first
fill_other_carrying(col) == fillna(ffill(col), median(col))

\* line 160
fill_other(col) == fillna(col, median(col))

RECURSIVE map_critical(_, _)
map_critical(st, i) ==
    IF i > Len(critical_columns) THEN st
    ELSE LET col == critical_columns[i]
         IN  map_critical(
                 IF col \in DOMAIN st.data /\ missing_count(st.data[col]) > 0
                 THEN assign(st, col, fill_critical(st.data[col]))
                 ELSE st,
                 i + 1)

RECURSIVE map_other(_, _)
map_other(st, i) ==
    IF i > Len(other_numeric) THEN st
    ELSE LET col == other_numeric[i]
         IN  map_other(
                 IF col \in DOMAIN st.data /\ missing_count(st.data[col]) > 0
                 THEN assign(st, col, fill_other(st.data[col]))
                 ELSE st,
                 i + 1)

impute(st) ==
    IF st.error # NoError THEN st
    ELSE [map_other(map_critical(st, 1), 1) EXCEPT !.ran = Append(@, "impute")]

----------------------------------------------------------------------------
(* Lines 163-164: order *)

\* every order of the positions in todo that is ascending in the timestamp;
\* sort_values does not say which of two equal timestamps comes first
RECURSIVE ascending_orders(_, _)
ascending_orders(ts, todo) ==
    IF todo = {} THEN {<<>>}
    ELSE LET least == Min({ts[i].t : i \in todo})
         IN  UNION {{<<i>> \o rest : rest \in ascending_orders(ts, todo \ {i})} :
                    i \in {j \in todo : ts[j].t = least}}

\* processed_df.sort_values('datetime_utc'): the frames it may return
sort_values(st) ==
    IF st.error # NoError THEN {st}
    ELSE {[take(st, order) EXCEPT !.ran = Append(@, "sort_values")] :
            order \in ascending_orders(st.data["datetime_utc"], 1..Len(st.index))}

----------------------------------------------------------------------------
(* Lines 39-181: the pipeline *)

\* mutant: missing values are filled before the rows without a timestamp go
transform_imputing_first(d) ==
    dropna(impute(event_flags(coerce_categorical(coerce_numeric(
        parse_datetime(resolve_datetime(copy(d))))))))

\* the state of the working copy before the final sort
transform(d) ==
    impute(dropna(event_flags(coerce_categorical(coerce_numeric(
        parse_datetime(resolve_datetime(copy(d))))))))

\* what a call may return or raise
clean_and_transform_data(d) ==
    {IF st.error # NoError
     THEN [error |-> st.error, ran |-> st.ran, index |-> <<>>,
           data |-> [c \in {} |-> <<>>]]
     ELSE [error |-> NoError, ran |-> st.ran, index |-> st.index, data |-> st.data] :
        st \in sort_values(transform(d))}

----------------------------------------------------------------------------
(* DataStorageModule: the weather_data table *)

\* the columns store_data inserts, calendar components aside
stored_columns ==
    {"datetime_utc", "temperature", "humidity", "pressure", "heat_index",
     "dew_point", "weather_condition", "precipitation", "visibility",
     "wind_direction", "wind_direction_text", "wind_speed", "wind_gust",
     "wind_chill", "fog_event", "hail_event", "rain_event", "snow_event",
     "thunder_event", "tornado_event"}

\* mutant: a missing column reads as empty text
row_get_blank(frame, i, name) ==
    IF name \in DOMAIN frame.data THEN frame.data[name][i] ELSE Str(<<>>)

\* row.get(name): None when the frame has no such column
row_get(frame, i, name) ==
    IF name \in DOMAIN frame.data THEN frame.data[name][i] ELSE None

\* the event columns, read with row.get(name, 0)
event_columns == {boolean_columns[i].new : i \in 1..Len(boolean_columns)}

\* the records list built by lines 88-129
records(frame) ==
    [i \in 1..Len(frame.index) |->
        [c \in stored_columns |->
            IF c \in event_columns /\ c \notin DOMAIN frame.data THEN Whole(0)
            ELSE row_get(frame, i, c)]]

\* mutant: a row with the timestamp of a new record is replaced by it
store_data_replacing(table, frame) ==
    SelectSeq(table, LAMBDA r : \A i \in 1..Len(frame.index) :
                                   r["datetime_utc"] # row_get(frame, i, "datetime_utc"))
    \o records(frame)

\* the table after executemany and commit
store_data(table, frame) == table \o records(frame)

\* SELECT COUNT(*) FROM weather_data
get_record_count(table) == Len(table)

\* get_data_summary of the processor
get_data_summary(pd) ==
    IF pd.present
    THEN [total_records |-> Len(pd.index), columns |-> DOMAIN pd.data]
    ELSE [error |-> "No processed data available"]

----------------------------------------------------------------------------
(* APIMODULE: get_monthly_temperature_stats *)

\* the second query of lines 120-127: the non-null temperatures of the month,
\* ORDER BY temperature; the rows of the table are those of the year and
\* month asked for
monthly_temperatures(table) ==
    LET present == SelectSeq([i \in 1..Len(table) |-> table[i]["temperature"]], notna)
    IN  SortSeq([i \in 1..Len(present) |-> present[i].n], LAMBDA a, b : a < b)

\* mutant: the upper middle value, whatever the count
median_temp_upper(temps) ==
    IF temps = <<>> THEN None ELSE Num(temps[(Len(temps) \div 2) + 1])

\* lines 128-131; temps[n//2] is the element n \div 2 + 1 counted from 1
median_temp(temps) ==
    LET n == Len(temps)
    IN  IF n = 0 THEN None
        ELSE IF n % 2 = 1 THEN Num(temps[(n \div 2) + 1])
        ELSE Num((temps[n \div 2] + temps[(n \div 2) + 1]) \div 2)

\* the dict returned for the year: one entry for the month when it has rows
get_monthly_temperature_stats(table) ==
    LET temps == monthly_temperatures(table)
    IN  IF temps = <<>> THEN <<>>
        ELSE << [median_temperature |-> median_temp(temps),
                 record_count |-> Len(temps)] >>

----------------------------------------------------------------------------
(* Raw datasets *)

T1 == Timestamp(1)
T2 == Timestamp(2)
T3 == Timestamp(3)

\* text that is neither a date nor a number
Junk == Str(<<"n", "/", "a">>)

\* all datasets of at most n rows over the given columns and row set
Datasets(columns, rowset, n) ==
    {[columns |-> columns, rows |-> rs] :
        rs \in UNION {[1..m -> rowset] : m \in 0..n}}

\* the datasets of D with the parseable timestamps of the first column
\* replaced by the row numbers: rows in timestamp order, no two alike
Stamped(D) ==
    {[d EXCEPT !.rows = [i \in 1..Len(d.rows) |->
                            IF d.rows[i][1].k = "ts"
                            THEN [d.rows[i] EXCEPT ![1] = Timestamp(i)]
                            ELSE d.rows[i]]] : d \in D}

\* a timestamp and a temperature, rows in any order, equal timestamps included
OrderDatasets ==
    Datasets(<< <<"d","a","t","e","t","i","m","e","_","u","t","c">>,
                <<" ","_","t","e","m","p","m">> >>,
             {<<t, x>> : t \in {T1, T2, T3}, x \in {NaN, Whole(10), Whole(20)}},
             MaxRows)

\* a timestamp that may not parse and a temperature
DropDatasets ==
    Stamped(Datasets(<< <<"D","a","t","e","T","i","m","e","_","U","T","C">>,
                        <<"t","e","m","p","m">> >>,
             {<<t, x>> : t \in {T1, Junk}, x \in {NaN, Whole(10), Whole(20)}},
             MaxRows))

\* six rows in timestamp order, every temperature sequence over null, 10, 20
ExampleDatasets ==
    {[columns |-> << <<"D","a","t","e","T","i","m","e">>,
                     <<"T","e","m","p","M">> >>,
      rows |-> [i \in 1..6 |-> <<Timestamp(i), xs[i]>>]] :
        xs \in [1..6 -> {NaN, Whole(10), Whole(20)}]}

\* no column resolves to the timestamp
NoDatetimeDatasets ==
    Datasets(<< <<"D","a","t","e">>, <<"T","e","m","p","_","M">>, <<"F","o","g">> >>,
             {<<T1, x, e>> : x \in {NaN, Whole(10)}, e \in {Whole(0), Whole(1)}},
             MaxShort)
    \cup Datasets(<< <<"t","i","m","e"," ","s","t","a","m","p">>, <<"h","u","m">> >>,
             {<<t, x>> : t \in {T1, T2}, x \in {NaN, Whole(10)}},
             MaxShort)
    \cup Datasets(<<>>, {<<>>}, MaxShort)

\* numeric cells of every kind
NumericDatasets ==
    Stamped(Datasets(<< <<"D","a","t","e","T","i","m","e","U","T","C">>,
                        <<"H","u","m">> >>,
             {<<t, x>> : t \in {T1, Junk},
                         x \in {NaN, Whole(10), Str(<<"7">>), Junk}},
             MaxShort))

\* two critical fields side by side
CriticalDatasets ==
    Stamped(Datasets(<< <<"d","a","t","e","t","i","m","e">>, <<"h","u","m">>,
                        <<"P","r","e","s","s","u","r","e"," ","M">> >>,
             {<<t, x, y>> : t \in {T1, Junk}, x \in {NaN, Whole(10)},
                            y \in {NaN, Whole(20)}},
             MaxShort))

\* event cells of every kind
EventDatasets ==
    Stamped(Datasets(<< <<"D","a","t","e","T","i","m","e">>, <<"F","o","g">> >>,
             {<<t, e>> : t \in {T1, NaN},
                         e \in {NaN, Whole(0), Whole(1), Whole(2), Num(1),
                                Str(<<"1">>), Str(<<"y","e","s">>)}},
             MaxShort))

\* categorical cells of every kind
CategoricalDatasets ==
    Stamped(Datasets(<< <<"d","a","t","e","t","i","m","e">>,
                        <<" ","C","o","n","d","s">> >>,
             {<<t, c>> : t \in {T1, Junk},
                         c \in {NaN, None, Str(<<>>), Str(<<"n","a","n">>),
                                Str(<<"N","o","n","e">>), Str(<<" ","F","o","g"," ">>),
                                Str(<<"F","o","g">>), Str(<<" ">>)}},
             MaxShort))

\* two raw columns for one logical field
DuplicateDatasets ==
    Datasets(<< <<"D","a","t","e"," ","T","i","m","e">>,
                <<"d","a","t","e","t","i","m","e","_","u","t","c">> >>,
             {<<t, u>> : t \in {T1, T2, Junk}, u \in {T1, T2, Junk}},
             MaxShort)
    \cup Stamped(Datasets(<< <<"d","a","t","e","t","i","m","e">>,
                             <<"t","e","m","p","m">>, <<"T","e","m","p","_","M">> >>,
             {<<T1, x, y>> : x \in {NaN, Whole(10), Whole(20)},
                             y \in {NaN, Whole(10), Whole(20)}},
             MaxShort))
    \cup Stamped(Datasets(<< <<"d","a","t","e","t","i","m","e">>, <<"f","o","g">>,
                             <<"F","O","G">> >>,
             {<<T1, x, y>> : x \in {Whole(0), Whole(1)}, y \in {Whole(0), Whole(1)}},
             MaxShort))
    \cup Stamped(Datasets(<< <<"d","a","t","e","t","i","m","e">>,
                             <<"c","o","n","d","s">>, <<"C","o","n","d","s">> >>,
             {<<T1, x, y>> : x \in {Str(<<"F","o","g">>), Str(<<"H","a","z","e">>)},
                             y \in {Str(<<"F","o","g">>), Str(<<"H","a","z","e">>)}},
             MaxShort))

\* the datasets of D with the parseable timestamps of the first column
\* replaced by instants that fall from row to row: rows in reverse timestamp
\* order, no two alike
Reversed(D) ==
    {[d EXCEPT !.rows = [i \in 1..Len(d.rows) |->
                            IF d.rows[i][1].k = "ts"
                            THEN [d.rows[i] EXCEPT ![1] = Timestamp(Len(d.rows) + 1 - i)]
                            ELSE d.rows[i]]] : d \in D}

\* a non-critical numeric field, latest row first
OtherNumericDatasets ==
    Reversed(Datasets(<< <<"d","a","t","e","t","i","m","e">>,
                         <<"D","e","w","p","t","_","M">> >>,
             {<<t, x>> : t \in {T1, Junk}, x \in {NaN, Whole(10), Whole(20)}},
             MaxRows))

\* a column of each kind, each under a spelling of its own
SpelledDatasets ==
    Stamped(Datasets(<< <<"D","a","t","e"," ","T","i","m","e">>,
                        <<"T","e","m","p","_","M">>, <<" ","C","o","n","d","s">>,
                        <<"F","_","o","g">> >>,
             {<<T1, x, Str(<<"F","o","g">>), e>> : x \in {NaN, Whole(10)}, e \in {Whole(0), Whole(1)}},
             MaxShort))

\* the families of short datasets: columns of every kind and spelling
ShortDatasets ==
    NoDatetimeDatasets \cup NumericDatasets \cup CriticalDatasets
    \cup EventDatasets \cup CategoricalDatasets \cup DuplicateDatasets
    \cup SpelledDatasets

RawDatasets ==
    OrderDatasets \cup DropDatasets \cup ExampleDatasets \cup OtherNumericDatasets
    \cup ShortDatasets

----------------------------------------------------------------------------
(* The system *)

\* the files the system is run on
Files ==
    Stamped(Datasets(<< <<"d","a","t","e","t","i","m","e","_","u","t","c">>,
                        <<"t","e","m","p","m">> >>,
             {<<T1, Whole(10)>>, <<Junk, Whole(10)>>},
             MaxFileRows))
    \cup Datasets(<< <<"D","a","t","e">>, <<"t","e","m","p","m">> >>,
             {<<T1, Whole(10)>>},
             MaxFileRows)

NoCall == [call |-> "none"]

NoData == [present |-> FALSE]

frame_of(out) == [present |-> TRUE, index |-> out.index, data |-> out.data]

\* WeatherDataProcessor.clean_and_transform_data(d)
CleanAndTransformData(d) ==
    \E out \in clean_and_transform_data(d) :
        /\ df' = caller_frame(d)
        /\ result' = [call |-> "clean_and_transform_data", error |-> out.error,
                      ran |-> out.ran, index |-> out.index, data |-> out.data]
        /\ processed_data' =
               IF out.error = NoError THEN frame_of(out) ELSE processed_data
        /\ UNCHANGED weather_data

\* mutant: the working copy is stored before the failure is noticed
ProcessAndStoreDataFileStoringFirst(d) ==
    \E out \in clean_and_transform_data(d) :
        /\ get_record_count(weather_data) + Len(d.rows) <= MaxStored
        /\ df' = d
        /\ result' = [call |-> "process_and_store_data_file", error |-> out.error,
                      ran |-> out.ran, index |-> out.index, data |-> out.data]
        /\ processed_data' =
               IF out.error = NoError THEN frame_of(out) ELSE processed_data
        /\ weather_data' =
               IF out.error = NoError THEN store_data(weather_data, out)
               ELSE store_data(weather_data, transform(d))

\* WeatherSystem.process_and_store_data_file on the file that holds d
ProcessAndStoreDataFile(d) ==
    \E out \in clean_and_transform_data(d) :
        /\ get_record_count(weather_data) + Len(out.index) <= MaxStored
        /\ df' = d
        /\ result' = [call |-> "process_and_store_data_file", error |-> out.error,
                      ran |-> out.ran, index |-> out.index, data |-> out.data]
        /\ processed_data' =
               IF out.error = NoError THEN frame_of(out) ELSE processed_data
        /\ weather_data' =
               IF out.error = NoError THEN store_data(weather_data, out)
               ELSE weather_data

(* The pipeline alone, on every raw dataset *)

PipelineInit ==
    /\ df \in RawDatasets
    /\ result = NoCall
    /\ processed_data = NoData
    /\ weather_data = <<>>

\* one call on the dataset drawn
PipelineNext == result = NoCall /\ CleanAndTransformData(df)

PipelineSpec == PipelineInit /\ [][PipelineNext]_vars

(* The pipeline alone, on the short datasets *)

ShortInit ==
    /\ df \in ShortDatasets
    /\ result = NoCall
    /\ processed_data = NoData
    /\ weather_data = <<>>

ShortSpec == ShortInit /\ [][PipelineNext]_vars

(* The system, run on one file after another *)

Init ==
    /\ df \in Files
    /\ result = NoCall
    /\ processed_data = NoData
    /\ weather_data = <<>>

Process == \E d \in Files : ProcessAndStoreDataFile(d)

Clean == \E d \in Files : CleanAndTransformData(d)

Next == Process \/ Clean

Spec == Init /\ [][Next]_vars

(* The medians: a month of observations, imputed and queried *)

\* a temperature column that opens with a blank cell, rows in timestamp order
MonthDataset(xs) ==
    [columns |-> << <<"d","a","t","e","t","i","m","e","_","u","t","c">>,
                    <<"t","e","m","p","m">> >>,
     rows |-> [i \in 1..(Len(xs) + 1) |->
                  <<Timestamp(i), IF i = 1 THEN NaN ELSE xs[i - 1]>>]]

\* the table that holds the observations of d as they were read
MonthTable(d) ==
    store_data(<<>>, [index |-> [i \in 1..Len(d.rows) |-> i],
                      data |-> [c \in {"datetime_utc", "temperature"} |->
                                   [i \in 1..Len(d.rows) |->
                                       d.rows[i][IF c = "datetime_utc" THEN 1 ELSE 2]]]])

\* WeatherAPI.get_monthly_temperature_stats(year)
GetMonthlyTemperatureStats ==
    /\ result.call # "get_monthly_temperature_stats"
    /\ result' = [call |-> "get_monthly_temperature_stats", error |-> NoError,
                  stats |-> get_monthly_temperature_stats(weather_data)]
    /\ UNCHANGED <<df, processed_data, weather_data>>

MedianInit ==
    /\ \E xs \in UNION {[1..m -> {Whole(1), Whole(2), Whole(3), Whole(4)}] :
                         m \in 0..MaxTemps} :
           /\ df = MonthDataset(xs)
           /\ weather_data = MonthTable(MonthDataset(xs))
    /\ result = NoCall
    /\ processed_data = NoData

MedianNext ==
    \/ result = NoCall /\ CleanAndTransformData(df)
    \/ GetMonthlyTemperatureStats

MedianSpec == MedianInit /\ [][MedianNext]_vars

----------------------------------------------------------------------------
(* Vocabulary of the properties *)

Called == result.call # "none"

Completed == Called /\ result.error = NoError

\* some raw column resolves to the timestamp field
DatetimeResolves == \E j \in 1..Len(df.columns) : is_datetime_name(df.columns[j])

\* the raw cells of the resolved timestamp column
DatetimeCells == raw_column(df, find_datetime_col(df.columns))

\* input rows whose timestamp parses
Parseable ==
    LET cells == DatetimeCells
    IN  {i \in 1..Len(cells) : cells[i].k = "ts"}

\* the search keys of the columns and the column that supplies each
Mapping == col_mapping(working_columns(df))

\* whether a raw column resolves to the search key
Resolves(key) == key \in DOMAIN Mapping

\* the raw cells of the column that supplies the search key
SourceCells(key) == raw_column(df, Mapping[key])

\* the numeric values of the input rows for a numeric field under the given
\* mapping, NaN when no raw column supplies it
SourceNumbersIn(mapping, e) ==
    LET key == search_key(e.raw)
        cells == raw_column(df, mapping[key])
    IN  IF key \in DOMAIN mapping
        THEN [i \in 1..Len(df.rows) |-> to_numeric(cells[i])]
        ELSE [i \in 1..Len(df.rows) |-> NaN]

SourceNumbers(e) == SourceNumbersIn(Mapping, e)

CriticalFields == {e \in Range(numeric_columns) : e.new \in Range(critical_columns)}

\* the cell of field name in canonical record j, as the Store receives it
Canonical(name, j) == row_get(result, j, name)

Ascending(ts) == \A j \in 1..(Len(ts) - 1) : ts[j].t <= ts[j + 1].t

StrictlyAscending(ts) == \A j \in 1..(Len(ts) - 1) : ts[j].t < ts[j + 1].t

\* the input rows are in timestamp order, every timestamp parsed
InputInOrder ==
    /\ DatetimeResolves
    /\ LET cells == DatetimeCells
       IN  /\ \A i \in 1..Len(cells) : cells[i].k = "ts"
           /\ StrictlyAscending(cells)

\* the temperature cells of the input, as numbers
InputTemperatures == SourceNumbers(numeric_columns[1])

----------------------------------------------------------------------------
(* C1 *)

\* C1: when no raw column name resolves to the timestamp field, the call
\* fails with the schema error of line 59 whatever other columns are present,
\* and no stage after the column lookup has run.
C1_NoDatetimeColumnFails ==
    (Called /\ ~DatetimeResolves) =>
        /\ result.error = SchemaError
        /\ result.ran = <<"resolve_datetime">>

\* a failed call on a dataset with rows and a resolvable numeric column
C1_Witness ==
    /\ Called
    /\ ~DatetimeResolves
    /\ Len(df.rows) > 0
    /\ Resolves(search_key(numeric_columns[1].raw))
    /\ result.error = SchemaError

----------------------------------------------------------------------------
(* C2 *)

\* C2: in the canonical output, whose timestamps are pairwise distinct, every
\* null critical cell with an earlier non-null value holds the value of the
\* most recent prior non-null record in timestamp order, whatever the order
\* of the input rows.
C2_ForwardFillInTimestampOrder ==
    (Completed /\ StrictlyAscending(result.data["datetime_utc"])) =>
        \A e \in CriticalFields :
            LET source == SourceNumbers(e)
            IN  \A j \in 1..Len(result.index) :
                    LET prior == {i \in 1..(j - 1) : notna(source[result.index[i]])}
                    IN  (isna(source[result.index[j]]) /\ prior # {}) =>
                            Canonical(e.new, j) = source[result.index[Max(prior)]]

----------------------------------------------------------------------------
(* C3 *)

Example6 == <<NaN, NaN, Whole(10), NaN, Whole(20), NaN>>

Example3 == <<NaN, Whole(10), NaN>>

ExampleNone == <<NaN, NaN, NaN>>

\* a raw column supplies the temperature
TemperatureResolves == Resolves(search_key(numeric_columns[1].raw))

\* the temperature column of the canonical output
OutputTemperatures ==
    [j \in 1..Len(result.index) |-> Canonical("temperature", j)]

\* C3 as stated: [null, null, 10, null, 20, null] in timestamp order becomes
\* [10, 10, 10, 10, 20, 20], [null, 10, null] becomes [10, 10, 10] and
\* [null, null, null] stays null.
C3_ExamplesAsStated ==
    (Completed /\ InputInOrder /\ TemperatureResolves) =>
        LET input == InputTemperatures
            output == OutputTemperatures
        IN  /\ input = Example6 =>
                   output = <<Whole(10), Whole(10), Whole(10), Whole(10),
                            Whole(20), Whole(20)>>
            /\ input = Example3 => output = <<Whole(10), Whole(10), Whole(10)>>
            /\ input = ExampleNone => \A j \in 1..Len(output) : isna(output[j])

\* C3 amended: [null, null, 10, null, 20, null] in timestamp order becomes
\* [15, 15, 10, 10, 20, 20], the two leading nulls taking the median of 10 and
\* 20; [null, 10, null] becomes [10, 10, 10]; [null, null, null] stays null.
C3_Examples ==
    (Completed /\ InputInOrder /\ TemperatureResolves) =>
        LET input == InputTemperatures
            output == OutputTemperatures
        IN  /\ input = Example6 =>
                   output = <<Whole(15), Whole(15), Whole(10), Whole(10),
                            Whole(20), Whole(20)>>
            /\ input = Example3 => output = <<Whole(10), Whole(10), Whole(10)>>
            /\ input = ExampleNone => \A j \in 1..Len(output) : isna(output[j])

\* the six-row example has been processed
C3_Witness ==
    /\ Completed
    /\ InputInOrder
    /\ TemperatureResolves
    /\ InputTemperatures = Example6
    /\ Len(result.index) = 6

----------------------------------------------------------------------------
(* C4 *)

\* C4: every event flag of every canonical record is 0 or 1, never null, and
\* a flag whose raw column is absent is 0 in every record.
C4_EventFlagsBoolean ==
    Completed =>
        \A e \in Range(boolean_columns) : \A j \in 1..Len(result.index) :
            /\ Canonical(e.new, j) \in {Whole(0), Whole(1)}
            /\ ~Resolves(lower(e.raw)) => Canonical(e.new, j) = Whole(0)

----------------------------------------------------------------------------
(* C5 *)

\* C5: with N input rows of which K < N have an unparseable timestamp, the
\* call returns N - K rows sorted ascending by timestamp, whatever the other
\* cells contain.
C5_RowDrop ==
    (Called /\ DatetimeResolves /\ Parseable # {}) =>
        /\ result.error = NoError
        /\ Len(result.index) = Cardinality(Parseable)
        /\ Ascending(result.data["datetime_utc"])

----------------------------------------------------------------------------
(* C6 *)

\* C6 as stated: a critical field is null in some canonical record only if
\* no row of the whole input had a valid value for it.
C6_NullOnlyIfNoValueInInput ==
    Completed =>
        \A e \in CriticalFields :
            (\E j \in 1..Len(result.index) : isna(Canonical(e.new, j))) =>
                LET source == SourceNumbers(e)
                IN  \A i \in 1..Len(df.rows) : isna(source[i])

\* C6 amended: a critical field is null in some canonical record only if no
\* retained row (a row whose timestamp parsed) had a valid value for it;
\* whenever a retained row has one, every canonical record is non-null.
C6_NullOnlyIfNoValueRetained ==
    Completed =>
        LET mapping == Mapping
            parsed == Parseable
        IN  \A e \in CriticalFields :
                (\E j \in 1..Len(result.index) : isna(Canonical(e.new, j))) =>
                    LET source == SourceNumbersIn(mapping, e)
                    IN  \A i \in parsed : isna(source[i])

\* a retained leading null was filled although a row was dropped
C6_Witness ==
    /\ Completed
    /\ Parseable # 1..Len(df.rows)
    /\ \E i \in Parseable : \E k \in Parseable :
           /\ i < k
           /\ isna(InputTemperatures[i])
           /\ notna(InputTemperatures[k])
    /\ \A j \in 1..Len(result.index) : notna(Canonical("temperature", j))

----------------------------------------------------------------------------
(* C7 *)

FatalErrors == {SchemaError, DataQualityError}

\* C7: a run of process_and_store_data_file that ends in a fatal stage error
\* (timestamp column unresolved, or no timestamp parsed) leaves the rows of
\* the weather_data table, and so their count, as they were before the run.
C7_FatalErrorStoresNothing ==
    [][(result'.call = "process_and_store_data_file"
            /\ result'.error \in FatalErrors)
        => (weather_data' = weather_data
            /\ get_record_count(weather_data') = get_record_count(weather_data))]_vars

\* a run failed on an unresolved timestamp column after rows had been stored
C7_Witness ==
    /\ result.call = "process_and_store_data_file"
    /\ result.error = SchemaError
    /\ Len(df.rows) > 0
    /\ get_record_count(weather_data) > 0

----------------------------------------------------------------------------
(* C8 *)

\* C8: with the timestamp column resolved, the call fails with the data
\* quality error of line 69 exactly when no cell of that column parses; when
\* some cell parses it does not fail for that reason, and a completed call
\* keeps exactly the rows whose timestamp parsed.
C8_NoValidTimestamps ==
    (Called /\ DatetimeResolves) =>
        LET parsed == Parseable
        IN  /\ parsed = {} =>
                   (result.error = DataQualityError
                    /\ result.ran = <<"resolve_datetime", "parse_datetime">>)
            /\ parsed # {} =>
                   (result.error # DataQualityError
                    /\ (result.error = NoError => Range(result.index) = parsed))

\* a dataset of several rows, none with a parseable timestamp, was rejected
C8_Witness ==
    /\ Called
    /\ DatetimeResolves
    /\ Len(df.rows) >= 2
    /\ Parseable = {}
    /\ result.error = DataQualityError

----------------------------------------------------------------------------
(* C9 *)

\* the search keys of the numeric, categorical and event fields
FieldKeys ==
    {search_key(e.raw) : e \in Range(numeric_columns) \cup Range(categorical_columns)}
    \cup {lower(e.raw) : e \in Range(boolean_columns)}

\* the raw columns of d that match the search key
Matching(d, key) == {j \in 1..Len(d.columns) : search_key(d.columns[j]) = key}

\* the raw columns of d that match the timestamp field
DatetimeMatching(d) == {j \in 1..Len(d.columns) : is_datetime_name(d.columns[j])}

\* d without the columns at the positions J
Without(d, J) ==
    LET keep == SelectSeq([j \in 1..Len(d.columns) |-> j], LAMBDA j : j \notin J)
    IN  [columns |-> [c \in 1..Len(keep) |-> d.columns[keep[c]]],
         rows |-> [i \in 1..Len(d.rows) |->
                      [c \in 1..Len(keep) |-> d.rows[i][keep[c]]]]]

AllButFirst(J) == IF J = {} THEN {} ELSE J \ {Min(J)}

\* the columns of d that match a numeric, categorical or event field some
\* earlier column matches too: all matching columns but the first
NotFirst(d) ==
    LET keys == [j \in 1..Len(d.columns) |-> search_key(d.columns[j])]
    IN  {j \in 1..Len(keys) :
            keys[j] \in FieldKeys /\ \E i \in 1..(j - 1) : keys[i] = keys[j]}

\* the columns of d that match a numeric, categorical or event field some
\* later column matches too: all matching columns but the last
NotLast(d) ==
    LET keys == [j \in 1..Len(d.columns) |-> search_key(d.columns[j])]
    IN  {j \in 1..Len(keys) :
            keys[j] \in FieldKeys /\ \E i \in (j + 1)..Len(keys) : keys[i] = keys[j]}

\* what the last call returned or raised
Outcome ==
    [error |-> result.error, ran |-> result.ran, index |-> result.index,
     data |-> result.data]

\* C9 as stated: for every logical field the first matching raw column
\* supplies the values: the call does what it does on the dataset without
\* the later matching columns.
C9_FirstMatchWins ==
    Called =>
        LET later == AllButFirst(DatetimeMatching(df)) \cup NotFirst(df)
        IN  later # {} => Outcome \in clean_and_transform_data(Without(df, later))

\* C9 amended: the first raw column matching the timestamp variants supplies
\* the timestamps, and the last raw column matching a numeric, categorical
\* or event field supplies that field; the other matching columns are
\* ignored: the call does what it does on the dataset without them.
C9_FirstDatetimeLastField ==
    Called =>
        LET others == AllButFirst(DatetimeMatching(df)) \cup NotLast(df)
        IN  others # {} => Outcome \in clean_and_transform_data(Without(df, others))

\* two temperature columns that differ, where the first one's values are
\* not the ones returned
C9_Witness ==
    /\ Completed
    /\ Cardinality(Matching(df, search_key(numeric_columns[1].raw))) = 2
    /\ Outcome \notin clean_and_transform_data(
           Without(df, AllButFirst(Matching(df, search_key(numeric_columns[1].raw)))))

----------------------------------------------------------------------------
(* C10 *)

\* a missing, zero or empty cell
Falsy(c) == isna(c) \/ (c.k = "num" /\ c.n = 0) \/ (c.k = "str" /\ c.s = <<>>)

\* C10: for each resolved event column no cell makes the call raise, a
\* missing, zero or false-like cell gives 0 and every other cell gives 1.
C10_EventCoercion ==
    (Called /\ DatetimeResolves /\ Parseable # {}) =>
        /\ result.error = NoError
        /\ \A e \in Range(boolean_columns) : \A j \in 1..Len(result.index) :
               Resolves(lower(e.raw)) =>
                   Canonical(e.new, j) =
                       IF Falsy(SourceCells(lower(e.raw))[result.index[j]])
                       THEN Whole(0) ELSE Whole(1)

----------------------------------------------------------------------------
(* C11 *)

\* the statistical median of a non-empty sequence of numbers: the middle value
\* for an odd count, the mean of the two middle values for an even count;
\* stated by counting, without sorting
MedianOf(values) ==
    LET n == Len(values)
        at_most(v) == Cardinality({i \in 1..n : values[i] <= v})
        \* the k-th smallest value
        ranked(k) == Min({v \in Range(values) : at_most(v) >= k})
    IN  IF n % 2 = 1 THEN ranked((n + 1) \div 2)
        ELSE (ranked(n \div 2) + ranked((n \div 2) + 1)) \div 2

\* the numbers held by the non-null cells of a column
Numbers(col) ==
    LET present == SelectSeq(col, notna)
    IN  [i \in 1..Len(present) |-> present[i].n]

\* the input cells of a numeric field in the rows of the canonical records
RetainedNumbersIn(mapping, e) ==
    LET source == SourceNumbersIn(mapping, e)
    IN  [j \in 1..Len(result.index) |-> source[result.index[j]]]

RetainedNumbers(e) == RetainedNumbersIn(Mapping, e)

\* the retained rows were given in timestamp order, no two timestamps alike
RowsInTimestampOrder ==
    /\ StrictlyAscending(result.data["datetime_utc"])
    /\ \A j \in 1..(Len(result.index) - 1) : result.index[j] < result.index[j + 1]

\* C11: with the rows in timestamp order, every null of a critical field with
\* no non-null observation before it is filled with the median of the
\* non-null values the field has over the canonical dataset, when there is one.
C11_LeadingNullsTakeMedian ==
    (Completed /\ RowsInTimestampOrder) =>
        LET mapping == Mapping
        IN  \A e \in CriticalFields :
                LET retained == RetainedNumbersIn(mapping, e)
                    numbers == Numbers(retained)
                IN  \A j \in 1..Len(retained) :
                        ((\A i \in 1..j : isna(retained[i])) /\ numbers # <<>>) =>
                            Canonical(e.new, j) = Num(MedianOf(numbers))

\* a leading null was filled with 15, the median of the later 10 and 20
C11_Witness ==
    /\ Completed
    /\ RowsInTimestampOrder
    /\ RetainedNumbers(numeric_columns[1]) = <<NaN, Whole(10), Whole(20)>>
    /\ Canonical("temperature", 1) = Whole(15)

----------------------------------------------------------------------------
(* C12 *)

\* the non-null temperatures of the table, as numbers
TableTemperatures ==
    Numbers([i \in 1..Len(weather_data) |-> weather_data[i]["temperature"]])

\* the values the Imputer filled into the blank cells of the temperature
ImputedTemperatures ==
    {processed_data.data["temperature"][j] :
        j \in {i \in 1..Len(processed_data.index) :
                  isna(InputTemperatures[processed_data.index[i]])}}

\* the sequence holds exactly the whole numbers 1..n, in some order
IsOneTo(values, n) ==
    Len(values) = n /\ \A x \in 1..n : \E i \in 1..n : values[i] = 2 * x

\* C12: when the Imputer and get_monthly_temperature_stats work on the same
\* non-null temperatures, the value filled into a gap and the median
\* reported are the same number: the middle sorted value for an odd count,
\* the mean of the two middle values for an even count; [1,2,3] gives 2 and
\* [1,2,3,4] gives 2.5.
C12_MedianAgreement ==
    (/\ result.call = "get_monthly_temperature_stats"
     /\ processed_data.present
     /\ TableTemperatures = Numbers(InputTemperatures)
     /\ TableTemperatures # <<>>) =>
        LET reported == result.stats[1].median_temperature
        IN  /\ reported = Num(MedianOf(TableTemperatures))
            /\ ImputedTemperatures = {reported}
            /\ IsOneTo(TableTemperatures, 3) => reported = Whole(2)
            /\ IsOneTo(TableTemperatures, 4) => reported = Num(5)

\* the temperatures 1, 2, 3, 4 out of order: 2.5 filled in and 2.5 reported
C12_Witness ==
    /\ result.call = "get_monthly_temperature_stats"
    /\ processed_data.present
    /\ TableTemperatures = <<6, 2, 8, 4>>
    /\ ImputedTemperatures = {Num(5)}
    /\ result.stats[1].median_temperature = Num(5)

----------------------------------------------------------------------------
(* C13 *)

upper_char(c) ==
    CASE c = "a" -> "A" [] c = "b" -> "B" [] c = "c" -> "C" [] c = "d" -> "D"
      [] c = "e" -> "E" [] c = "f" -> "F" [] c = "g" -> "G" [] c = "h" -> "H"
      [] c = "i" -> "I" [] c = "j" -> "J" [] c = "k" -> "K" [] c = "l" -> "L"
      [] c = "m" -> "M" [] c = "n" -> "N" [] c = "o" -> "O" [] c = "p" -> "P"
      [] c = "q" -> "Q" [] c = "r" -> "R" [] c = "s" -> "S" [] c = "t" -> "T"
      [] c = "u" -> "U" [] c = "v" -> "V" [] c = "w" -> "W" [] c = "x" -> "X"
      [] c = "y" -> "Y" [] c = "z" -> "Z" [] OTHER -> c

\* the letters of s, one by one: blanks and underscores left out
Letters(s) == SelectSeq(s, LAMBDA c : c \notin {" ", "_"})

\* the accepted variants as the tables of the code spell them
AcceptedVariants ==
    Range(possible_datetime_cols)
    \cup {e.raw : e \in Range(numeric_columns) \cup Range(categorical_columns)
                       \cup Range(boolean_columns)}

\* spellings of a column name that differ from it in letter case, blanks and
\* underscores only: all capitals; small letters alone; small letters with an
\* underscore after the first, a blank before and a blank after; the
\* accepted variants of the same letters
Respellings(name) ==
    LET letters == [i \in 1..Len(Letters(name)) |-> lower_char(Letters(name)[i])]
    IN  ({[i \in 1..Len(name) |-> upper_char(name[i])],
          letters,
          <<" ", Head(letters), "_">> \o Tail(letters) \o <<" ">>}
         \cup {v \in AcceptedVariants : Letters(lower(v)) = letters}) \ {name}

\* the raw columns of d that match an accepted variant of some field
Matched(d) ==
    {j \in 1..Len(d.columns) :
        Letters(lower(d.columns[j])) \in
            {Letters(lower(v)) : v \in AcceptedVariants}}

\* d with column j called name
Renamed(d, j, name) == [d EXCEPT !.columns[j] = name]

\* C13: renaming a raw column that matches an accepted variant (of the
\* timestamp, a numeric, a categorical or an event field) by changing only
\* letter case, blanks and underscores, column names staying distinct, leaves
\* what the call returns or raises as it is.
C13_SpellingInvariance ==
    Called =>
        \A j \in Matched(df) :
            \A name \in Respellings(df.columns[j]) \ Range(df.columns) :
                Outcome \in clean_and_transform_data(Renamed(df, j, name))

\* a completed call on records whose timestamp, numeric, categorical and
\* event columns all have respellings
C13_Witness ==
    /\ Completed
    /\ Len(result.index) = 2
    /\ \E t, n, c, e \in Matched(df) :
           /\ is_datetime_name(df.columns[t])
           /\ search_key(df.columns[n]) = search_key(numeric_columns[1].raw)
           /\ search_key(df.columns[c]) = search_key(categorical_columns[1].raw)
           /\ search_key(df.columns[e]) = lower(boolean_columns[1].raw)
           /\ \A j \in {t, n, c, e} :
                  Cardinality(Respellings(df.columns[j]) \ Range(df.columns)) >= 3
    /\ Canonical("temperature", 1) = Whole(10)
    /\ Canonical("weather_condition", 1) = Str(<<"F","o","g">>)
    /\ Canonical("fog_event", 1) = Whole(1)

----------------------------------------------------------------------------
(* C14 *)

\* no cell of a resolved event column is text that int() rejects
EventCellsCastable ==
    LET mapping == Mapping
    IN  \A e \in Range(boolean_columns) :
            lower(e.raw) \in DOMAIN mapping =>
                LET cells == raw_column(df, mapping[lower(e.raw)])
                IN  \A i \in 1..Len(cells) : int_castable(cells[i])

----------------------------------------------------------------------------
(* C15 *)

OtherFields == {e \in Range(numeric_columns) : e.new \in Range(other_numeric)}

\* C15: in every canonical record a non-critical numeric field of the
\* output holds the record's own input value when it has one, and otherwise
\* the median of the field's non-null values over the canonical dataset
\* (null when there is none): a value that does not depend on where the row
\* stands.
C15_OtherNumericMedian ==
    Completed =>
        LET mapping == Mapping
        IN  \A e \in OtherFields :
                e.new \in DOMAIN result.data =>
                    LET retained == RetainedNumbersIn(mapping, e)
                        numbers == Numbers(retained)
                        fill == IF numbers = <<>> THEN NaN ELSE Num(MedianOf(numbers))
                    IN  \A j \in 1..Len(retained) :
                            Canonical(e.new, j) =
                                IF notna(retained[j]) THEN retained[j] ELSE fill

\* a blank dew point between 20 and 10 became 15, not the value before it
C15_Witness ==
    /\ Completed
    /\ Resolves(search_key(numeric_columns[5].raw))
    /\ [i \in 1..Len(df.rows) |-> SourceNumbers(numeric_columns[5])[i]]
           = <<Whole(20), NaN, Whole(10)>>
    /\ [j \in 1..Len(result.index) |-> Canonical("dew_point", j)]
           = <<Whole(10), Whole(15), Whole(20)>>

----------------------------------------------------------------------------
(* C16 *)

\* C16: canonicalizing again (to text, trimmed, the tokens "nan", "" and
\* "None" to null) every cell of a categorical column the call has
\* canonicalized, its null cells included, gives the cell back unchanged.
C16_CanonicalTextIdempotent ==
    Completed =>
        \A e \in Range(categorical_columns) :
            e.new \in DOMAIN result.data =>
                \A j \in 1..Len(result.index) :
                    canonical_text(result.data[e.new][j]) = result.data[e.new][j]

\* a column canonicalized to a trimmed text and a null that came from a blank
C16_Witness ==
    /\ Completed
    /\ Resolves(search_key(categorical_columns[1].raw))
    /\ SourceCells(search_key(categorical_columns[1].raw))
           = <<Str(<<" ","F","o","g"," ">>), Str(<<" ">>)>>
    /\ result.data["weather_condition"] = <<Str(<<"F","o","g">>), None>>

----------------------------------------------------------------------------
(* C17 *)

\* the last step was a run of process_and_store_data_file that stored its rows
Stored == result.call = "process_and_store_data_file" /\ result.error = NoError

\* C17: every successful store_data call leaves the rows already in the
\* table as they were, in place, and adds the rows passed in after them, so
\* that get_record_count grows by their number, whether or not the same rows
\* were stored before; no other step touches the table.  Over a sequence of
\* calls the count is the count before plus the total of the rows passed in.
C17_AppendOnly ==
    [][IF Stored'
       THEN /\ get_record_count(weather_data') =
                   get_record_count(weather_data) + Len(result'.index)
            /\ SubSeq(weather_data', 1, Len(weather_data)) = weather_data
            /\ SubSeq(weather_data', Len(weather_data) + 1, Len(weather_data'))
                   = records(result')
       ELSE weather_data' = weather_data]_vars

\* the same two-row dataset was stored twice: four rows, the first two as
\* they were stored the first time
C17_Witness ==
    /\ Stored
    /\ Len(result.index) = 2
    /\ get_record_count(weather_data) = 4
    /\ SubSeq(weather_data, 1, 2) = records(result)
    /\ SubSeq(weather_data, 3, 4) = records(result)

----------------------------------------------------------------------------
(* C18 *)

\* C18: after a call of clean_and_transform_data, whether it returned or
\* raised and whatever was processed or stored before, the caller's dataset
\* is the file's dataset as it was passed in, what the call returned or
\* raised is what a call on that dataset gives, and a returned dataset is
\* the one the processor keeps for its summary.
C18_OwnCopyNoHistory ==
    result.call = "clean_and_transform_data" =>
        /\ df \in Files
        /\ Outcome \in clean_and_transform_data(df)
        /\ result.error = NoError => processed_data = frame_of(Outcome)

\* after two rows of another file were stored, a call on a two-row dataset
\* returned one record: the caller still has both rows
C18_Witness ==
    /\ result.call = "clean_and_transform_data"
    /\ result.error = NoError
    /\ get_record_count(weather_data) = 2
    /\ df \in Files
    /\ Len(df.rows) = 2
    /\ Len(result.index) = 1

----------------------------------------------------------------------------
(* C19 *)

\* the raw columns of d that match a numeric field
NumericMatching(d) ==
    UNION {Matching(d, search_key(e.raw)) : e \in Range(numeric_columns)}

\* d with cell v in the given columns of the given rows
Overwritten(d, rows, columns, v) ==
    [d EXCEPT !.rows = [i \in 1..Len(d.rows) |->
                           [c \in 1..Len(d.columns) |->
                               IF i \in rows /\ c \in columns THEN v
                               ELSE d.rows[i][c]]]]

\* C19: the numeric cells of the rows whose timestamp does not parse have no
\* part in what the call returns: with all of them blank, or all of them
\* another number, the call returns the same canonical dataset, so that two
\* inputs that differ in those cells only give the same output.
C19_DroppedRowsTakeNoPart ==
    (Called /\ DatetimeResolves) =>
        LET dropped == (1..Len(df.rows)) \ Parseable
            columns == NumericMatching(df)
        IN  (dropped # {} /\ columns # {}) =>
                \A v \in {NaN, Whole(30)} :
                    Outcome \in clean_and_transform_data(
                                    Overwritten(df, dropped, columns, v))

\* the row before a blank humidity was dropped with its 10: the blank
\* stayed blank
C19_Witness ==
    /\ Completed
    /\ Resolves(search_key(numeric_columns[2].raw))
    /\ Parseable = {2}
    /\ SourceNumbers(numeric_columns[2]) = <<Whole(10), NaN>>
    /\ Canonical("humidity", 1) = NaN

====
